---- MODULE Spec2Model ----
(***************************************************************************)
(* Commerce schema mutations addToCart and checkout (src/unnamed/part_000) *)
(* run as concurrent resolver calls against the list store.  A resolver    *)
(* runs atomically between two awaits; every awaited helper call is one    *)
(* step.  The relation from a CartItem to its product is called `item`,    *)
(* the name both resolvers use for it.                                     *)
(***************************************************************************)
EXTENDS Integers, Sequences, FiniteSets, TLC

\* ---------------------------------------------------------------- bounds
MaxCalls == 2
MaxInitItems == 2
MaxInitQuantity == 1

CallIds == 1..MaxCalls
Users == {"u1", "u2"}
\* the users whose session issues the calls; the others only own cart items
SessionUsers == {"u1"}
ProductIds == {"p1", "p2"}
Tokens == {"tok"}
Null == "null"

\* the lists the schema declares
ListKeys == {"User", "Product", "ProductImage", "CartItem", "Order", "OrderItem"}

\* error messages
ErrCheckoutSignedIn == "You must be signed in to complete this order."
ErrAddToCartSignedIn == "You must be signed in soooon"
ErrTypeError == "TypeError"
ErrCharge == "charge failed"
ErrStore == "store error"
NoError == "none"

VARIABLES store, charges, calls, field, page

vars == <<store, charges, calls, field, page>>

\* ------------------------------------------------------------- products
ProductPrice(p) == IF p = "p1" THEN 500 ELSE 300

ProductRecord(p, img) ==
  [id |-> p, name |-> p, description |-> p, price |-> ProductPrice(p), image |-> img]

\* ---------------------------------------------------------------- helpers
\* context.authedItem: undefined, an item without id, or a signed-in user
AuthedItems ==
  {[defined |-> FALSE, id |-> Null]} \cup [defined : {TRUE}, id : SessionUsers \cup {Null}]

IdleCall ==
  [op |-> "none", pc |-> "idle", authedItem |-> [defined |-> FALSE, id |-> Null],
   id |-> Null, token |-> Null, userId |-> Null, User |-> [cart |-> <<>>],
   amount |-> 0, charge |-> [id |-> 0, amount |-> 0], orderItems |-> <<>>,
   allCartItems |-> <<>>, error |-> NoError, result |-> 0]

InFlight(c) == calls[c].pc \notin {"idle", "done", "failed"}

RECURSIVE reduce(_, _, _)
\* Array.prototype.reduce, left to right
reduce(Op(_, _), s, init) ==
  IF s = <<>> THEN init ELSE reduce(Op, Tail(s), Op(init, Head(s)))

\* Array.prototype.map
map(Op(_), s) == [i \in DOMAIN s |-> Op(s[i])]

\* ------------------------------------------------- list store CRUD helpers
\* getItems({ where: { user: { id }, item: { id } }, returnFields: 'id quantity' })
getItems(st, listKey, where) ==
  map(LAMBDA r : [id |-> r.id, quantity |-> r.quantity],
      SelectSeq(st[listKey],
                LAMBDA r : \A f \in DOMAIN where : r[f] = where[f].id))

\* getItem({ listKey: 'User', itemId, returnFields: 'id cart { id quantity item {...} }' })
getItem(st, listKey, itemId) ==
  [id |-> itemId,
   cart |-> map(LAMBDA r : [id |-> r.id, quantity |-> r.quantity,
                            item |-> st.Product[r.item]],
                SelectSeq(st.CartItem, LAMBDA r : r.user = itemId))]

\* updateItem({ listKey, item: { id, data } }): fails when no record has the id
updateItem(st, listKey, item) ==
  IF \E i \in DOMAIN st[listKey] : st[listKey][i].id = item.id
  THEN [ok |-> TRUE,
        store |-> [st EXCEPT ![listKey] =
                     [i \in DOMAIN @ |->
                        IF @[i].id = item.id
                        THEN [@[i] EXCEPT !.quantity = item.data.quantity]
                        ELSE @[i]]]]
  ELSE [ok |-> FALSE, store |-> st]

\* createItem({ listKey, item }): a list key the schema does not declare is
\* rejected; an Order is created together with its nested OrderItems
createItem(st, listKey, item) ==
  IF listKey \notin ListKeys THEN [ok |-> FALSE, store |-> st, id |-> 0]
  ELSE IF listKey = "Order"
  THEN LET base == Len(st.OrderItem)
           created == [i \in DOMAIN item.items.create |->
                         [id |-> base + i] @@ item.items.create[i]]
           order == [id |-> Len(st.Order) + 1, total |-> item.total,
                     charge |-> item.charge,
                     items |-> [i \in DOMAIN created |-> created[i].id],
                     user |-> item.user.connect.id]
       IN [ok |-> TRUE,
           store |-> [st EXCEPT !.OrderItem = @ \o created,
                                !.Order = Append(@, order)],
           id |-> order.id]
  ELSE LET fresh == 1 + reduce(LAMBDA m, r : IF r.id > m THEN r.id ELSE m,
                               st[listKey], 0)
       IN [ok |-> TRUE,
           store |-> [st EXCEPT ![listKey] =
                        Append(@, [id |-> fresh, quantity |-> 1] @@ item)],
           id |-> fresh]

\* deleteItems({ listKey, items }): removes the records with the given ids
deleteItems(st, listKey, items) ==
  [st EXCEPT ![listKey] = SelectSeq(@, LAMBDA r : r.id \notin items)]

\* ------------------------------------------------------ payment processor
\* stripe.paymentIntents.create({ amount, currency, confirm, payment_method })
paymentIntentsCreate(log, c, amount, token, ok) ==
  Append(log, [id |-> Len(log) + 1, call |-> c, amount |-> amount,
               payment_method |-> token,
               status |-> IF ok THEN "succeeded" ELSE "failed"])

\* ------------------------------------------------------------- checkout
\* variant: the tally leaves the quantity out
AmountOfPrices(User) ==
  reduce(LAMBDA tally, cartItem : tally + cartItem.item.price, User.cart, 0)

\* amount = User.cart.reduce((tally, cartItem) => tally + price * quantity, 0)
Amount(User) ==
  reduce(LAMBDA tally, cartItem : tally + cartItem.item.price * cartItem.quantity,
         User.cart, 0)

\* variant: the order item keeps the user reference
OrderItemKeepingUser(cartItem, userId) ==
  [quantity |-> cartItem.quantity,
   user |-> [connect |-> [id |-> userId]],
   image |-> [connect |-> cartItem.item.image]] @@ cartItem.item

\* one orderItem of User.cart.map(...): spread of the product, then quantity,
\* user and image, then `delete orderItem.id; delete orderItem.user`
OrderItemOf(cartItem, userId) ==
  LET orderItem ==
        [quantity |-> cartItem.quantity,
         user |-> [connect |-> [id |-> userId]],
         image |-> [connect |-> cartItem.item.image]] @@ cartItem.item
  IN [f \in DOMAIN orderItem \ {"id", "user"} |-> orderItem[f]]

\* variant: only the first cart item is cleared
FirstCartItemId(User) == {User.cart[i].id : i \in DOMAIN User.cart \cap {1}}

\* cartItemIds = User.cart.map(cartItem => cartItem.id)
CartItemIds(User) == {User.cart[i].id : i \in DOMAIN User.cart}

\* variant: a rejected charge is swallowed
AfterChargeSwallowed(ok, throws) ==
  IF throws THEN [pc |-> "failed", error |-> ErrTypeError]
  ELSE [pc |-> "createItem", error |-> NoError]

\* a rejected `await stripe.paymentIntents.create` or a throw while the
\* order items are built leaves the resolver; otherwise the Order is created
AfterCharge(ok, throws) ==
  IF ~ok THEN [pc |-> "failed", error |-> ErrCharge]
  ELSE IF throws THEN [pc |-> "failed", error |-> ErrTypeError]
  ELSE [pc |-> "createItem", error |-> NoError]

\* variant: a rejected Order creation is swallowed
AfterCreateItemSwallowed(ok) == [pc |-> "deleteItems", error |-> NoError]

\* a rejected `await createItem` leaves the resolver before deleteItems
AfterCreateItem(ok) ==
  IF ok THEN [pc |-> "deleteItems", error |-> NoError]
  ELSE [pc |-> "failed", error |-> ErrStore]

\* variant: the lookup leaves the product out
AddToCartWhereUser(userId, id) == [user |-> [id |-> userId]]

\* where: { user: { id: userId }, item: { id } }
AddToCartWhere(userId, id) == [user |-> [id |-> userId], item |-> [id |-> id]]

\* variant: the quantity is lowered
UpdateDataLowered(quantity) == [quantity |-> quantity - 1]

\* data: { quantity: quantity + 1 }
UpdateData(quantity) == [quantity |-> quantity + 1]

\* reading cartItem.item.image.publicUrlTransformed of a product without image
OrderItemsThrow(User) == \E i \in DOMAIN User.cart : User.cart[i].item.image = Null

Begin(c) ==
  /\ calls[c].pc = "idle"
  /\ IF c = 1 THEN TRUE ELSE calls[c - 1].pc # "idle"

CheckoutStart(c, authedItem, token) ==
  /\ Begin(c)
  /\ LET call == [calls[c] EXCEPT !.op = "checkout", !.authedItem = authedItem,
                                  !.token = token]
     IN calls' = [calls EXCEPT ![c] =
          IF ~authedItem.defined
          THEN [call EXCEPT !.pc = "failed", !.error = ErrTypeError]
          ELSE IF authedItem.id = Null
          THEN [call EXCEPT !.pc = "failed", !.error = ErrCheckoutSignedIn]
          ELSE [call EXCEPT !.pc = "getItem", !.userId = authedItem.id]]
  /\ UNCHANGED <<store, charges>>

CheckoutGetItem(c) ==
  /\ calls[c].op = "checkout" /\ calls[c].pc = "getItem"
  /\ LET User == getItem(store, "User", calls[c].userId)
     IN calls' = [calls EXCEPT ![c].User = User, ![c].amount = Amount(User),
                               ![c].pc = "charge"]
  /\ UNCHANGED <<store, charges>>

CheckoutCharge(c, ok) ==
  /\ calls[c].op = "checkout" /\ calls[c].pc = "charge"
  /\ charges' = paymentIntentsCreate(charges, c, calls[c].amount, calls[c].token, ok)
  /\ LET charge == [id |-> Len(charges'), amount |-> calls[c].amount]
         throws == OrderItemsThrow(calls[c].User)
         after == AfterCharge(ok, throws)
     IN calls' = [calls EXCEPT ![c] =
          IF ~ok THEN [@ EXCEPT !.pc = after.pc, !.error = after.error]
          ELSE IF throws
          THEN [@ EXCEPT !.pc = after.pc, !.error = after.error, !.charge = charge]
          ELSE [@ EXCEPT !.pc = after.pc, !.error = after.error, !.charge = charge,
                         !.orderItems = map(LAMBDA ci : OrderItemOf(ci, calls[c].userId),
                                            calls[c].User.cart)]]
  /\ UNCHANGED store

CheckoutCreateItem(c, ok) ==
  /\ calls[c].op = "checkout" /\ calls[c].pc = "createItem"
  /\ LET order == createItem(store, "Order",
                     [total |-> calls[c].charge.amount,
                      charge |-> calls[c].charge.id,
                      items |-> [create |-> calls[c].orderItems],
                      user |-> [connect |-> [id |-> calls[c].userId]]])
         after == AfterCreateItem(ok /\ order.ok)
     IN IF ok /\ order.ok
        THEN /\ store' = order.store
             /\ calls' = [calls EXCEPT ![c].pc = after.pc, ![c].error = after.error,
                                       ![c].result = order.id]
        ELSE /\ store' = store
             /\ calls' = [calls EXCEPT ![c].pc = after.pc, ![c].error = after.error]
  /\ UNCHANGED charges

CheckoutDeleteItems(c, ok) ==
  /\ calls[c].op = "checkout" /\ calls[c].pc = "deleteItems"
  /\ LET cartItemIds == CartItemIds(calls[c].User)
     IN IF ok
        THEN /\ store' = deleteItems(store, "CartItem", cartItemIds)
             /\ calls' = [calls EXCEPT ![c].pc = "done"]
        ELSE /\ store' = store
             /\ calls' = [calls EXCEPT ![c].pc = "failed", ![c].error = ErrStore]
  /\ UNCHANGED charges

\* ------------------------------------------------------------ addToCart
AddToCartStart(c, authedItem, id) ==
  /\ Begin(c)
  /\ LET call == [calls[c] EXCEPT !.op = "addToCart", !.authedItem = authedItem,
                                  !.id = id]
     IN calls' = [calls EXCEPT ![c] =
          IF ~authedItem.defined
          THEN [call EXCEPT !.pc = "failed", !.error = ErrTypeError]
          ELSE IF authedItem.id = Null
          THEN [call EXCEPT !.pc = "failed", !.error = ErrAddToCartSignedIn]
          ELSE [call EXCEPT !.pc = "getItems", !.userId = authedItem.id]]
  /\ UNCHANGED <<store, charges>>

AddToCartGetItems(c) ==
  /\ calls[c].op = "addToCart" /\ calls[c].pc = "getItems"
  /\ LET allCartItems == getItems(store, "CartItem",
                                 AddToCartWhere(calls[c].userId, calls[c].id))
     IN calls' = [calls EXCEPT ![c].allCartItems = allCartItems,
                               ![c].pc = IF allCartItems # <<>> THEN "updateItem"
                                         ELSE "createItem"]
  /\ UNCHANGED <<store, charges>>

AddToCartUpdateItem(c) ==
  /\ calls[c].op = "addToCart" /\ calls[c].pc = "updateItem"
  /\ LET existingCartItem == calls[c].allCartItems[1]
         quantity == existingCartItem.quantity
         updated == updateItem(store, "CartItem",
                      [id |-> existingCartItem.id, data |-> UpdateData(quantity)])
     IN /\ store' = updated.store
        /\ calls' = [calls EXCEPT ![c] =
             IF updated.ok THEN [@ EXCEPT !.pc = "done", !.result = existingCartItem.id]
             ELSE [@ EXCEPT !.pc = "failed", !.error = ErrStore]]
  /\ UNCHANGED charges

AddToCartCreateItem(c) ==
  /\ calls[c].op = "addToCart" /\ calls[c].pc = "createItem"
  /\ LET created == createItem(store, "CardItem",
                      [item |-> [connect |-> [id |-> calls[c].id],
                                 user |-> [connect |-> [id |-> calls[c].userId]]]])
     IN /\ store' = created.store
        /\ calls' = [calls EXCEPT ![c] =
             IF created.ok THEN [@ EXCEPT !.pc = "done", !.result = created.id]
             ELSE [@ EXCEPT !.pc = "failed", !.error = ErrStore]]
  /\ UNCHANGED charges

\* ================================================= CloudinaryImageField
\* (src/fields/types/cloudinaryimage/CloudinaryImageField.js)
\* undefined, null and false are one value here: the component only tests
\* them for truth, compares origin with 'local' and renders action as the
\* value of the hidden input
Absent == "absent"

SUPPORTED_TYPES ==
  {"image/gif", "image/png", "image/jpeg", "image/bmp", "image/x-icon",
   "application/pdf", "image/x-tiff", "application/postscript",
   "image/vnd.adobe.photoshop", "image/svg+xml"}

\* the MIME types of the files the user picks
FileTypes == {"image/png", "application/pdf", "text/plain"}

\* FileReader.readAsDataURL: the data URL starts with the file's type
DataURL(type) == <<"data", type>>

\* the event handed to a click handler; a direct call passes none
ClickEvents == [defined : {TRUE}, altKey : BOOLEAN]
NoEvent == [defined |-> FALSE, altKey |-> FALSE]

IdleField ==
  [url |-> FALSE, autoCleanup |-> FALSE, FileReader |-> TRUE, mounted |-> TRUE,
   origin |-> Absent, localSource |-> Absent, removeExisting |-> FALSE,
   action |-> Absent, fileValue |-> Absent, reading |-> <<>>,
   event |-> "none", arg |-> Absent, alert |-> FALSE, threw |-> FALSE]

\* this.state.origin === 'local'
hasLocal(f) == f.origin = "local"

\* !!this.props.value.url
hasExisting(f) == f.url

hasImage(f) == hasExisting(f) \/ hasLocal(f)

\* variant: the modifier key decides alone
RemoveActionByKey(autoCleanup, altKey) == IF altKey THEN "reset" ELSE "delete"

\* the action of a remove of the existing image
RemoveAction(autoCleanup, altKey) ==
  IF autoCleanup
  THEN IF altKey THEN "reset" ELSE "delete"
  ELSE IF altKey THEN "delete" ELSE "reset"

\* removeImage with a local file: the file field is emptied
RemoveLocal(f) ==
  [f EXCEPT !.fileValue = Absent, !.localSource = Absent, !.origin = Absent]

\* removeImage(e): reading e.altKey of a missing event throws before setState
removeImage(f, e) ==
  IF hasLocal(f) THEN RemoveLocal(f)
  ELSE IF hasExisting(f)
  THEN IF ~e.defined THEN [f EXCEPT !.threw = TRUE]
       ELSE [f EXCEPT !.localSource = Absent, !.origin = Absent,
                      !.removeExisting = TRUE,
                      !.action = RemoveAction(f.autoCleanup, e.altKey)]
  ELSE [f EXCEPT !.localSource = Absent, !.origin = Absent]

\* variant: the pending action survives the undo
undoRemoveKeepingAction(f) ==
  [f EXCEPT !.fileValue = Absent, !.removeExisting = FALSE,
            !.localSource = Absent, !.origin = Absent]

\* undoRemove
undoRemove(f) ==
  [f EXCEPT !.fileValue = Absent, !.removeExisting = FALSE,
            !.localSource = Absent, !.origin = Absent, !.action = Absent]

\* fileChanged(event) for the one file of the file input
fileChanged(f, type) ==
  LET g == [f EXCEPT !.fileValue = type]
  IN IF g.FileReader
     THEN IF type \notin SUPPORTED_TYPES
          THEN LET r == removeImage(g, NoEvent)
               IN IF r.threw THEN r ELSE [r EXCEPT !.alert = TRUE]
          ELSE [g EXCEPT !.reading = Append(@, type)]
     ELSE [g EXCEPT !.origin = "local"]

\* fileReader.onload for the i-th read in progress
onload(f, i) ==
  LET g == [f EXCEPT !.reading = SubSeq(@, 1, i - 1) \o SubSeq(@, i + 1, Len(@))]
  IN IF ~f.mounted THEN g
     ELSE [g EXCEPT !.localSource = DataURL(f.reading[i]), !.origin = "local"]

Handled(f, event, arg) ==
  [f EXCEPT !.event = event, !.arg = arg, !.alert = FALSE, !.threw = FALSE]

MaxReads == 2

FieldFileChanged(type) ==
  /\ field.mounted
  /\ type \in SUPPORTED_TYPES /\ field.FileReader => Len(field.reading) < MaxReads
  /\ field' = fileChanged(Handled(field, "fileChanged", type), type)
  /\ UNCHANGED <<store, charges, calls, page>>

\* the Cancel / Delete Image / Remove Image button
FieldRemoveImage(e) ==
  /\ field.mounted /\ hasImage(field) /\ ~field.removeExisting
  /\ field' = removeImage(Handled(field, "removeImage",
                                  IF e.altKey THEN "alt" ELSE "plain"), e)
  /\ UNCHANGED <<store, charges, calls, page>>

\* the Undo Remove button
FieldUndoRemove ==
  /\ field.mounted /\ hasImage(field) /\ field.removeExisting
  /\ field' = undoRemove(Handled(field, "undoRemove", Absent))
  /\ UNCHANGED <<store, charges, calls, page>>

FieldOnload(i) ==
  /\ i \in DOMAIN field.reading
  /\ field' = onload(Handled(field, "onload", field.reading[i]), i)
  /\ UNCHANGED <<store, charges, calls, page>>

FieldUnmount ==
  /\ field.mounted
  /\ field' = [Handled(field, "unmount", Absent) EXCEPT !.mounted = FALSE]
  /\ UNCHANGED <<store, charges, calls, page>>

NextField ==
  \/ \E type \in FileTypes : FieldFileChanged(type)
  \/ \E e \in ClickEvents : FieldRemoveImage(e)
  \/ FieldUndoRemove
  \/ \E i \in 1..MaxReads : FieldOnload(i)
  \/ FieldUnmount

\* ============================================================= ItemPage
\* (src/unnamed/part_001: ItemForm, DeleteButton)
MaxUpdates == 1
MaxRefetches == 1
MaxDeletes == 1

Fields == {"name", "description"}
\* values the item query returns for a field, and values a form input holds
LoadedValues == {Null, "a"}
FormValues == {"", "b"}
NullItem == 0
ItemId == "id1"

\* error paths of a result: ['item'] and ['item', field]
TopPath == <<"item">>
FieldPath(f) == <<"item", f>>

\* controller.deserialize / controller.serialize of a text-like field
deserialize(v) == IF v = Null THEN "" ELSE v
serialize(v) == IF v = "" THEN Null ELSE v

\* deserializeValue(list.fields, itemGetter)
deserializeValue(getter) ==
  [f \in Fields |->
     IF getter.ver = NullItem THEN ""
     ELSE IF FieldPath(f) \in getter.errors THEN "error"
     ELSE deserialize(getter.values[f])]

\* useChangedFieldsAndDataForUpdate(list.fields, itemGetter, state.value)
changedFields(getter, value) ==
  {f \in Fields : value[f] # deserializeValue(getter)[f]}

dataForUpdate(getter, value) ==
  [f \in changedFields(getter, value) |-> serialize(value[f])]

\* useInvalidFields(list.fields, state.value): name is required
invalidFields(value) == {f \in Fields \cap {"name"} : value[f] = ""}

NoArg ==
  [field |-> "", value |-> "", rejected |-> FALSE, top |-> FALSE,
   fieldErrors |-> {}, nullItem |-> FALSE, call |-> 0]

NoResult ==
  [loading |-> FALSE, hasData |-> FALSE,
   data |-> [ver |-> NullItem, values |-> [f \in Fields |-> Null], errors |-> {}],
   networkError |-> FALSE]

IdlePage ==
  [view |-> "none",
   prop |-> [ver |-> 1, values |-> [f \in Fields |-> Null], errors |-> {}],
   mut |-> NoResult,
   state |-> [value |-> [f \in Fields |-> ""], item |-> 1],
   forceValidation |-> FALSE, inflight |-> <<>>, lastId |-> 0, nextVer |-> 2,
   refetches |-> 0, toasts |-> <<>>, isOpen |-> FALSE, deleting |-> 0,
   deletes |-> 0, event |-> "none", arg |-> NoArg]

\* itemGetter = useMemo(() => data && makeDataGetter(data, errors).get('item')) ?? itemGetter
itemGetter(pg) == IF pg.mut.hasData THEN pg.mut.data ELSE pg.prop

\* variant: the snapshot is applied while the update is loading
shouldResetWhileLoading(loading, item, getter) ==
  /\ item # getter.ver
  /\ \A x \in getter.errors : Len(x) # 1

\* !loading && state.item !== itemGetter.data &&
\* (itemGetter.errors || []).every(x => x.path?.length !== 1)
shouldReset(loading, item, getter) ==
  /\ ~loading
  /\ item # getter.ver
  /\ \A x \in getter.errors : Len(x) # 1

\* the body of ItemForm up to the state reset
render(pg) ==
  IF shouldReset(pg.mut.loading, pg.state.item, itemGetter(pg))
  THEN [pg EXCEPT !.state = [value |-> deserializeValue(itemGetter(pg)),
                             item |-> itemGetter(pg).ver]]
  ELSE pg

\* an event handler starts; toasts holds the toasts the last handler added
On(pg, event, arg) == [pg EXCEPT !.event = event, !.arg = arg, !.toasts = <<>>]

\* variant: the change forgets which snapshot the buffer belongs to
onChangeDroppingItem(st, f, v) ==
  [item |-> NullItem, value |-> [st.value EXCEPT ![f] = v]]

\* Fields onChange: setValue({ item: state.item, value })
onChange(st, f, v) == [item |-> st.item, value |-> [st.value EXCEPT ![f] = v]]

\* variant: validation never blocks the save
neverForceValidation(invalid) == FALSE

\* newForceValidation = invalidFields.size !== 0
newForceValidation(invalid) == invalid # {}

\* errors?.find(x => x.path?.length === 1)
failedToUpdate(errors) == \E x \in errors : Len(x) = 1

\* the toast of update().then(...).catch(...): reading data.item[...] of a
\* null item throws inside then and lands in catch
updateToast(rejected, errors, nullItem) ==
  IF rejected THEN [text |-> "Failed to update item", tone |-> "negative"]
  ELSE IF failedToUpdate(errors)
  THEN [text |-> "Failed to update item", tone |-> "negative"]
  ELSE IF nullItem THEN [text |-> "Failed to update item", tone |-> "negative"]
  ELSE [text |-> "Saved successfully", tone |-> "positive"]

\* toasts.addToast
Toast(pg, toast) == [pg EXCEPT !.toasts = Append(@, toast)]

PageChange(f, v) ==
  /\ page.view = "form"
  /\ page' = render(On([page EXCEPT !.state = onChange(@, f, v)], "change",
                       [NoArg EXCEPT !.field = f, !.value = v]))
  /\ UNCHANGED <<store, charges, calls, field>>

\* the Reset changes button
PageResetChanges ==
  /\ page.view = "form"
  /\ page' = render(On([page EXCEPT !.state =
                          [item |-> itemGetter(page).ver,
                           value |-> deserializeValue(itemGetter(page))]],
                       "reset", NoArg))
  /\ UNCHANGED <<store, charges, calls, field>>

\* the Save changes button, which has an onClick only with changed fields
PageSave ==
  /\ page.view = "form"
  /\ changedFields(itemGetter(page), page.state.value) # {}
  /\ LET force == newForceValidation(invalidFields(page.state.value))
         clicked == On([page EXCEPT !.forceValidation = force], "save", NoArg)
     IN IF force THEN page' = render(clicked)
        ELSE /\ page.lastId < MaxUpdates
             /\ page' = render(
                  [clicked EXCEPT
                     !.lastId = @ + 1,
                     !.inflight = Append(@,
                        [call |-> page.lastId + 1,
                         id |-> ItemId,
                         data |-> dataForUpdate(itemGetter(page), page.state.value)]),
                     !.mut = IF @.loading THEN @
                             ELSE [NoResult EXCEPT !.loading = TRUE]])
  /\ UNCHANGED <<store, charges, calls, field>>

\* the sets of fields a result reports a field-level error for
FieldErrorSets == {{}, {"description"}}

\* the result of an update call: rejected, or resolved with data and errors
Results ==
  {r \in [rejected : BOOLEAN, top : BOOLEAN, fieldErrors : FieldErrorSets,
          nullItem : BOOLEAN] :
     /\ r.rejected => ~r.top /\ r.fieldErrors = {} /\ ~r.nullItem
     /\ r.top => r.nullItem
     /\ (r.nullItem /\ ~r.top) => r.fieldErrors # {}}

ErrorsOf(r) ==
  (IF r.top THEN {TopPath} ELSE {}) \cup {FieldPath(f) : f \in r.fieldErrors}

PageUpdateDone(k, r) ==
  /\ k \in DOMAIN page.inflight
  /\ LET u == page.inflight[k]
         errors == ErrorsOf(r)
         \* only the fields sent that resolved appear changed in the result
         values == [f \in Fields |->
                      IF f \in r.fieldErrors THEN Null
                      ELSE IF f \in DOMAIN u.data THEN u.data[f]
                      ELSE page.prop.values[f]]
         data == [ver |-> IF r.nullItem THEN NullItem ELSE page.nextVer,
                  values |-> values, errors |-> errors]
         result == IF r.rejected
                   THEN [NoResult EXCEPT !.networkError = TRUE]
                   ELSE [NoResult EXCEPT !.hasData = TRUE, !.data = data]
     IN page' = render(Toast(On(
          [page EXCEPT
             !.inflight = SubSeq(@, 1, k - 1) \o SubSeq(@, k + 1, Len(@)),
             !.nextVer = IF r.rejected \/ r.nullItem THEN @ ELSE @ + 1,
             !.mut = IF u.call = page.lastId THEN result ELSE @],
          "updateDone",
          [NoArg EXCEPT !.rejected = r.rejected, !.top = r.top,
                        !.fieldErrors = r.fieldErrors, !.nullItem = r.nullItem,
                        !.call = u.call]),
          updateToast(r.rejected, errors, r.nullItem)))
  /\ UNCHANGED <<store, charges, calls, field>>

\* the item query delivers a new result to ItemPage
PageRefetch(values, errs) ==
  /\ page.view = "form"
  /\ page.refetches < MaxRefetches
  /\ page' = render(On(
       [page EXCEPT !.prop = [ver |-> page.nextVer, values |-> values,
                              errors |-> {FieldPath(f) : f \in errs}],
                    !.nextVer = @ + 1, !.refetches = @ + 1],
       "refetch", NoArg))
  /\ UNCHANGED <<store, charges, calls, field>>

\* the Delete button: setIsOpen(true)
PageDeleteOpen ==
  /\ page.view = "form"
  /\ page' = On([page EXCEPT !.isOpen = TRUE], "deleteOpen", NoArg)
  /\ UNCHANGED <<store, charges, calls, field>>

\* the dialog's cancel action: setIsOpen(false)
PageDeleteCancel ==
  /\ page.view = "form" /\ page.isOpen
  /\ page' = On([page EXCEPT !.isOpen = FALSE], "deleteCancel", NoArg)
  /\ UNCHANGED <<store, charges, calls, field>>

\* the dialog's confirm action up to `await deleteItem()`
PageDeleteConfirm ==
  /\ page.view = "form" /\ page.isOpen
  /\ page.deletes < MaxDeletes
  /\ page' = On([page EXCEPT !.deleting = @ + 1, !.deletes = @ + 1],
                "deleteConfirm", NoArg)
  /\ UNCHANGED <<store, charges, calls, field>>

\* the confirm action after the await: the catch, router.push, the toast
PageDeleteDone(ok) ==
  /\ page.deleting > 0
  /\ LET done == On([page EXCEPT !.deleting = @ - 1], "deleteDone",
                     [NoArg EXCEPT !.rejected = ~ok])
         caught == IF ok THEN done
                   ELSE Toast(done, [text |-> "Failed to delete item",
                                     tone |-> "negative"])
     IN page' = Toast([caught EXCEPT !.view = "list"],
                      [text |-> "Deleted successfully", tone |-> "positive"])
  /\ UNCHANGED <<store, charges, calls, field>>

NextPage ==
  \/ \E f \in Fields, v \in FormValues : PageChange(f, v)
  \/ PageResetChanges
  \/ PageSave
  \/ \E k \in 1..MaxUpdates, r \in Results : PageUpdateDone(k, r)
  \/ \E values \in [Fields -> LoadedValues], errs \in FieldErrorSets :
       PageRefetch(values, errs)

\* the delete button next to a form that is being edited
NextDelete ==
  \/ \E f \in Fields, v \in FormValues : PageChange(f, v)
  \/ PageDeleteOpen
  \/ PageDeleteCancel
  \/ PageDeleteConfirm
  \/ \E ok \in BOOLEAN : PageDeleteDone(ok)

\* ------------------------------------------------------------------ Init
CartKinds == [quantity : 1..MaxInitQuantity, item : ProductIds, user : Users]

InitCarts ==
  UNION {[1..n -> CartKinds] : n \in 0..MaxInitItems}

\* every product has an image, or the last one has none
InitImages ==
  {[p \in ProductIds |-> "url"], [p \in ProductIds |-> IF p = "p2" THEN Null ELSE "url"]}

\* Seed keeps the CartItems the store started with; no resolver reads it
Init ==
  /\ \E cs \in InitCarts, img \in InitImages :
       store = [CartItem |-> [i \in DOMAIN cs |->
                                [id |-> i, quantity |-> cs[i].quantity,
                                 item |-> cs[i].item, user |-> cs[i].user]],
                Seed |-> cs,
                Order |-> <<>>,
                OrderItem |-> <<>>,
                Product |-> [p \in ProductIds |-> ProductRecord(p, img[p])]]
  /\ charges = <<>>
  /\ calls = [c \in CallIds |-> IdleCall]
  /\ field = IdleField
  /\ page = IdlePage

Start(c) ==
  \/ \E a \in AuthedItems, t \in Tokens : CheckoutStart(c, a, t)
  \/ \E a \in AuthedItems, p \in ProductIds : AddToCartStart(c, a, p)

Step(c) ==
  \/ CheckoutGetItem(c)
  \/ \E ok \in BOOLEAN : CheckoutCharge(c, ok)
  \/ \E ok \in BOOLEAN : CheckoutCreateItem(c, ok)
  \/ \E ok \in BOOLEAN : CheckoutDeleteItems(c, ok)
  \/ AddToCartGetItems(c)
  \/ AddToCartUpdateItem(c)
  \/ AddToCartCreateItem(c)

\* requests are served concurrently: a resolver suspended in an await lets
\* another call start or resume
Next == (\E c \in CallIds : Start(c) \/ Step(c)) /\ UNCHANGED <<field, page>>

Spec == Init /\ [][Next]_vars

\* calls issued strictly one after another: a call starts only when no other
\* call is in flight
NextSeq ==
  /\ \E c \in CallIds :
       \/ (\A d \in CallIds : ~InFlight(d)) /\ Start(c)
       \/ Step(c)
  /\ UNCHANGED <<field, page>>

SpecSeq == Init /\ [][NextSeq]_vars

\* the image field of one form: with or without an existing image, either
\* autoCleanup setting, in a browser with or without FileReader
InitField ==
  /\ store = [CartItem |-> <<>>, Order |-> <<>>, OrderItem |-> <<>>,
              Product |-> [p \in ProductIds |-> ProductRecord(p, Null)]]
  /\ charges = <<>>
  /\ calls = [c \in CallIds |-> IdleCall]
  /\ \E url, autoCleanup, reader \in BOOLEAN :
       field = [IdleField EXCEPT !.url = url, !.autoCleanup = autoCleanup,
                                 !.FileReader = reader]
  /\ page = IdlePage

SpecField == InitField /\ [][NextField]_vars

\* the item page after the item query has loaded a record
InitPage ==
  /\ store = [CartItem |-> <<>>, Order |-> <<>>, OrderItem |-> <<>>,
              Product |-> [p \in ProductIds |-> ProductRecord(p, Null)]]
  /\ charges = <<>>
  /\ calls = [c \in CallIds |-> IdleCall]
  /\ field = IdleField
  /\ \E values \in [Fields -> LoadedValues] :
       LET prop == [ver |-> 1, values |-> values, errors |-> {}]
       IN page = [IdlePage EXCEPT
                    !.view = "form", !.prop = prop, !.event = "load",
                    !.state = [value |-> deserializeValue(prop), item |-> 1]]

SpecPage == InitPage /\ [][NextPage]_vars

SpecDelete == InitPage /\ [][NextDelete]_vars

\* ================================================================ claims
\* the call that takes the step
Acts(c) == calls'[c] # calls[c]

Succeeded(c) == calls[c].pc = "done"

CartOf(st, u, p) == SelectSeq(st.CartItem, LAMBDA r : r.user = u /\ r.item = p)

RECURSIVE SumOver(_, _)
SumOver(cart, S) ==
  IF S = {} THEN 0
  ELSE LET i == CHOOSE j \in S : TRUE
       IN cart[i].item.price * cart[i].quantity + SumOver(cart, S \ {i})

SnapshotSum(c) == SumOver(calls[c].User.cart, DOMAIN calls[c].User.cart)

\* the step in which checkout call c has its charge made
ChargeStep(c) == calls[c].op = "checkout" /\ calls[c].pc = "charge" /\ Acts(c)

\* the step in which checkout call c has its Order created
OrderStep(c) ==
  /\ calls[c].op = "checkout" /\ calls[c].pc = "createItem"
  /\ calls'[c].pc = "deleteItems"

\* the step in which checkout call c returns the created Order
ReturnStep(c) ==
  calls[c].op = "checkout" /\ calls[c].pc = "deleteItems" /\ calls'[c].pc = "done"

\* C1: after n addToCart(p) calls by user u issued strictly one after another
\* on a store that held no CartItem for (u, p), the store holds exactly one
\* CartItem for (u, p) and its quantity is n.
C1_SequentialAddToCart ==
  \A n \in 1..MaxCalls, u \in Users, p \in ProductIds :
    (/\ \A c \in 1..n : /\ calls[c].op = "addToCart"
                        /\ calls[c].userId = u /\ calls[c].id = p
                        /\ calls[c].pc \in {"done", "failed"}
     /\ \A c \in CallIds \ (1..n) : calls[c].pc = "idle"
     /\ calls[1].allCartItems = <<>>)
    => /\ Len(CartOf(store, u, p)) = 1
       /\ CartOf(store, u, p)[1].quantity = n

\* C2: the amount charged by a checkout is the sum of price * quantity over
\* the cart snapshot it fetched, and the Order it creates stores that sum as
\* its total; charges and Orders come from checkout calls only.
C2_ChargeAndTotalAreSnapshotSum ==
  [][/\ \A c \in CallIds :
          /\ ChargeStep(c) =>
               /\ Len(charges') = Len(charges) + 1
               /\ charges'[Len(charges')].amount = SnapshotSum(c)
          /\ OrderStep(c) =>
               /\ Len(store'.Order) = Len(store.Order) + 1
               /\ store'.Order[Len(store'.Order)].total = SnapshotSum(c)
     /\ charges' # charges => \E c \in CallIds : ChargeStep(c)
     /\ store'.Order # store.Order => \E c \in CallIds : OrderStep(c)]_vars

\* a cart of {price 500, qty 2} and {price 300, qty 1} was charged 1300 and
\* gave an Order of total 1300
C2_Witness ==
  \E c \in CallIds :
    /\ calls[c].op = "checkout" /\ calls[c].pc \in {"deleteItems", "done"}
    /\ Len(calls[c].User.cart) = 2
    /\ \E i, j \in 1..2 :
         /\ calls[c].User.cart[i].item.price = 500 /\ calls[c].User.cart[i].quantity = 2
         /\ calls[c].User.cart[j].item.price = 300 /\ calls[c].User.cart[j].quantity = 1
    /\ charges[calls[c].charge.id].amount = 1300
    /\ \E o \in DOMAIN store.Order :
         store.Order[o].id = calls[c].result /\ store.Order[o].total = 1300

OrderItemById(st, id) ==
  st.OrderItem[CHOOSE k \in DOMAIN st.OrderItem : st.OrderItem[k].id = id]

\* C3: the Order a checkout creates carries one OrderItem per CartItem of the
\* fetched snapshot, in order; each copies the product's name, description
\* and price and the CartItem's quantity, and carries neither the product's
\* id nor a user reference.
C3_OrderItemsCopySnapshot ==
  [][\A c \in CallIds :
       OrderStep(c) =>
         LET cart == calls[c].User.cart
             order == store'.Order[Len(store'.Order)]
         IN /\ Len(order.items) = Len(cart)
            /\ Len(store'.OrderItem) = Len(store.OrderItem) + Len(cart)
            /\ \A i \in DOMAIN cart :
                 LET oi == OrderItemById(store', order.items[i])
                 IN /\ oi.name = cart[i].item.name
                    /\ oi.description = cart[i].item.description
                    /\ oi.price = cart[i].item.price
                    /\ oi.quantity = cart[i].quantity
                    /\ "user" \notin DOMAIN oi
                    /\ "id" \notin DOMAIN calls[c].orderItems[i]
                    /\ "user" \notin DOMAIN calls[c].orderItems[i]]_vars

\* an Order with two OrderItems of different products and quantities exists
C3_Witness ==
  \E o \in DOMAIN store.Order :
    /\ Len(store.Order[o].items) = 2
    /\ OrderItemById(store, store.Order[o].items[1]).name
         # OrderItemById(store, store.Order[o].items[2]).name
    /\ OrderItemById(store, store.Order[o].items[1]).quantity
         # OrderItemById(store, store.Order[o].items[2]).quantity

\* C4: in the state in which a checkout returns the created Order, the store
\* holds no CartItem owned by the calling user.
C4_CartEmptyAtReturn ==
  [][\A c \in CallIds :
       ReturnStep(c) =>
         \A i \in DOMAIN store'.CartItem :
           store'.CartItem[i].user # calls[c].userId]_vars

\* a checkout of a cart of two items has returned
C4_Witness ==
  \E c \in CallIds :
    /\ calls[c].op = "checkout" /\ Succeeded(c)
    /\ Len(calls[c].User.cart) = 2
    /\ \A i \in DOMAIN store.CartItem : store.CartItem[i].user # calls[c].userId

ChargesOf(log, c) == {k \in DOMAIN log : log[k].call = c}

ChargeFailed(c) == calls[c].op = "checkout" /\ calls[c].error = ErrCharge

SnapshotInStore(c) ==
  \A i \in DOMAIN calls[c].User.cart :
    \E k \in DOMAIN store.CartItem : store.CartItem[k].id = calls[c].User.cart[i].id

\* C5: a checkout whose charge fails fails itself, writes nothing to the
\* store before or after the charge (no Order, no OrderItem, no CartItem
\* deleted), and has invoked the charge operation exactly once.
C5_ChargeFailureAborts ==
  [][\A c \in CallIds :
       /\ (ChargeStep(c) /\ charges'[Len(charges')].status = "failed") =>
            /\ calls'[c].pc = "failed" /\ calls'[c].error = ErrCharge
            /\ store' = store
       /\ (calls[c].op = "checkout" /\ Acts(c)
             /\ calls[c].pc \in {"getItem", "charge"}) => store' = store
       /\ ChargeFailed(c) => ~Acts(c)
       /\ ChargeFailed(c)' =>
            /\ calls'[c].pc = "failed"
            /\ Cardinality(ChargesOf(charges', c)) = 1
            /\ \A o \in DOMAIN store'.Order :
                 store'.Order[o].charge \notin ChargesOf(charges', c)]_vars

\* the charge of a checkout of a non-empty cart failed; the cart is all there
C5_Witness ==
  \E c \in CallIds :
    /\ ChargeFailed(c)
    /\ calls[c].User.cart # <<>>
    /\ SnapshotInStore(c)
    /\ store.Order = <<>> /\ store.OrderItem = <<>>

\* C6: two addToCart calls for the same (user, product) whose lookups both
\* observed 'not found' leave two CartItems for the pair.
C6_RaceLeavesTwoCartItems ==
  \A c, d \in CallIds :
    (/\ c # d
     /\ calls[c].op = "addToCart" /\ calls[d].op = "addToCart"
     /\ calls[c].userId # Null /\ calls[c].userId = calls[d].userId
     /\ calls[c].id = calls[d].id
     /\ calls[c].pc \in {"done", "failed"} /\ calls[d].pc \in {"done", "failed"}
     /\ calls[c].allCartItems = <<>> /\ calls[d].allCartItems = <<>>)
    => Len(CartOf(store, calls[c].userId, calls[c].id)) = 2

Unauthenticated(c) ==
  /\ calls[c].pc # "idle"
  /\ ~calls[c].authedItem.defined \/ calls[c].authedItem.id = Null

\* C7: a call without an authenticated user fails with the 'must be signed
\* in' error of its resolver and touches neither the store nor the charges.
C7_UnauthenticatedFails ==
  \A c \in CallIds :
    Unauthenticated(c) =>
      /\ calls[c].pc = "failed"
      /\ calls[c].error = IF calls[c].op = "checkout" THEN ErrCheckoutSignedIn
                          ELSE ErrAddToCartSignedIn
      /\ ChargesOf(charges, c) = {}

\* C8: a successful addToCart(p) by u creates or mutates exactly one CartItem,
\* which belongs to (u, p); every other CartItem and every Product, Order and
\* OrderItem is left as it was, and its steps before the write change nothing.
C8_AddToCartFrame ==
  [][\A c \in CallIds :
       (calls[c].op = "addToCart" /\ Acts(c)) =>
         /\ store'.Order = store.Order
         /\ store'.OrderItem = store.OrderItem
         /\ store'.Product = store.Product
         /\ calls'[c].pc \notin {"done", "failed"} => store' = store
         /\ calls'[c].pc = "done" =>
              \/ /\ Len(store'.CartItem) = Len(store.CartItem)
                 /\ \E i \in DOMAIN store.CartItem :
                      /\ store.CartItem[i].user = calls[c].userId
                      /\ store.CartItem[i].item = calls[c].id
                      /\ store'.CartItem[i] =
                           [store.CartItem[i] EXCEPT
                              !.quantity = calls[c].allCartItems[1].quantity + 1]
                      /\ \A j \in DOMAIN store.CartItem \ {i} :
                           store'.CartItem[j] = store.CartItem[j]
              \/ /\ Len(store'.CartItem) = Len(store.CartItem) + 1
                 /\ SubSeq(store'.CartItem, 1, Len(store.CartItem)) = store.CartItem
                 /\ store'.CartItem[Len(store'.CartItem)].user = calls[c].userId
                 /\ store'.CartItem[Len(store'.CartItem)].item = calls[c].id]_vars

\* an addToCart has succeeded in a store that also holds a CartItem of the
\* same user for another product
C8_Witness ==
  \E c \in CallIds :
    /\ calls[c].op = "addToCart" /\ Succeeded(c)
    /\ \E i, j \in DOMAIN store.CartItem :
         /\ store.CartItem[i].id = calls[c].result
         /\ store.CartItem[j].user = calls[c].userId
         /\ store.CartItem[j].item # calls[c].id

\* C9: CartItems are deleted only by a checkout whose Order has been created,
\* an Order is created only by a checkout whose charge succeeded, and a
\* checkout whose Order creation fails ends failed with the charge captured,
\* no Order for it, and the store as it was.
C9_CheckoutOrdering ==
  [][/\ Len(store'.CartItem) < Len(store.CartItem) =>
          \E c \in CallIds :
            /\ calls[c].op = "checkout" /\ calls[c].pc = "deleteItems" /\ Acts(c)
            /\ \E o \in DOMAIN store.Order :
                 /\ store.Order[o].id = calls[c].result
                 /\ store.Order[o].charge = calls[c].charge.id
     /\ store'.Order # store.Order =>
          \E c \in CallIds :
            /\ OrderStep(c)
            /\ calls[c].charge.id \in ChargesOf(charges, c)
            /\ charges[calls[c].charge.id].status = "succeeded"
     /\ \A c \in CallIds :
          (calls[c].op = "checkout" /\ calls[c].pc = "createItem" /\ Acts(c)
             /\ ~OrderStep(c)) =>
            /\ calls'[c].pc = "failed"
            /\ store' = store
            /\ charges'[calls[c].charge.id].status = "succeeded"
            /\ \A o \in DOMAIN store'.Order :
                 store'.Order[o].charge # calls[c].charge.id
     /\ \A c \in CallIds :
          (calls[c].op = "checkout" /\ calls[c].pc = "failed") => ~Acts(c)]_vars

\* the Order creation of a checkout of a non-empty cart failed after its
\* charge succeeded; the cart is all there
C9_Witness ==
  \E c \in CallIds :
    /\ calls[c].op = "checkout" /\ calls[c].pc = "failed"
    /\ calls[c].error = ErrStore /\ calls[c].result = 0
    /\ calls[c].User.cart # <<>>
    /\ charges[calls[c].charge.id].status = "succeeded"
    /\ SnapshotInStore(c)
    /\ store.Order = <<>>

\* C10: every CartItem in the store has quantity >= 1.
C10_QuantityPositive ==
  \A i \in DOMAIN store.CartItem : store.CartItem[i].quantity >= 1

\* an addToCart has raised the quantity of a CartItem
C10_Witness ==
  \E c \in CallIds, i \in DOMAIN store.CartItem :
    /\ calls[c].op = "addToCart" /\ Succeeded(c)
    /\ store.CartItem[i].id = calls[c].result
    /\ store.CartItem[i].quantity = calls[c].allCartItems[1].quantity + 1

\* ------------------------------------------------------ image field claims
\* the step is the handling of the named event
FieldEvent(event) == field' # field /\ field'.event = event

\* C11: selecting a file of an unsupported type leaves origin, localSource,
\* removeExisting and the pending action as they were, stages no upload and
\* shows the unsupported-type alert.
C11_UnsupportedFileKeepsState ==
  [][(FieldEvent("fileChanged") /\ field'.arg \notin SUPPORTED_TYPES) =>
       /\ field'.origin = field.origin
       /\ field'.localSource = field.localSource
       /\ field'.removeExisting = field.removeExisting
       /\ field'.action = field.action
       /\ field'.reading = field.reading
       /\ field'.alert]_vars

\* C12: a remove of an existing remote image with no local file pending sets
\* the action to 'delete' for (autoCleanup, plain click) and (no autoCleanup,
\* modified click), and to 'reset' for the other two.
C12_RemoveActionTable ==
  [][(FieldEvent("removeImage") /\ ~hasLocal(field) /\ hasExisting(field)) =>
       /\ field'.removeExisting
       /\ (field.autoCleanup /\ field'.arg = "plain") => field'.action = "delete"
       /\ (field.autoCleanup /\ field'.arg = "alt") => field'.action = "reset"
       /\ (~field.autoCleanup /\ field'.arg = "plain") => field'.action = "reset"
       /\ (~field.autoCleanup /\ field'.arg = "alt") => field'.action = "delete"]_vars

\* a modified remove click with autoCleanup on has set the action to 'reset'
C12_Witness ==
  /\ field.event = "removeImage" /\ field.arg = "alt"
  /\ field.autoCleanup /\ field.url /\ field.removeExisting
  /\ field.action = "reset"

PendingRemove(f) == f.removeExisting /\ f.action \in {"delete", "reset"}

\* C18: the field is in exactly one of no-image, local-pending,
\* existing-remote and existing-removed: a local pending file and a pending
\* remove never hold together, and the action is 'delete' or 'reset' exactly
\* when removeExisting holds.
C18_FourStates ==
  /\ ~(hasLocal(field) /\ PendingRemove(field))
  /\ field.action \in {"delete", "reset"} <=> field.removeExisting
  /\ field.action \in {Absent, "delete", "reset"}

\* C18 as amended: the action is 'delete' or 'reset' exactly when
\* removeExisting holds and absent otherwise, and a remove is pending only
\* for an existing image.
C18_ActionIffRemoveExisting ==
  /\ field.action \in {"delete", "reset"} <=> field.removeExisting
  /\ field.action \in {Absent, "delete", "reset"}
  /\ field.removeExisting => hasExisting(field)

\* a local file is pending while the remove of the existing image is pending
C18_Witness ==
  hasLocal(field) /\ PendingRemove(field) /\ field.event = "onload"

\* ------------------------------------------------------- cart conservation
Quiescent == \A c \in CallIds : ~InFlight(c)

\* every call issued so far has succeeded
OnlySuccessful == \A c \in CallIds : calls[c].pc \in {"idle", "done"}

Quantity(records) == reduce(LAMBDA sum, r : sum + r.quantity, records, 0)

\* the successful addToCart(p) calls of user u
AddsOf(u, p) ==
  {c \in CallIds : /\ calls[c].op = "addToCart" /\ Succeeded(c)
                   /\ calls[c].userId = u /\ calls[c].id = p}

SeedOf(u, p) == SelectSeq(store.Seed, LAMBDA r : r.user = u /\ r.item = p)

\* the OrderItems of u's Orders that were made from product p
OrderedOf(u, p) ==
  SelectSeq(store.OrderItem,
            LAMBDA oi : /\ oi.name = p
                        /\ \E o \in DOMAIN store.Order :
                             /\ store.Order[o].user = u
                             /\ \E k \in DOMAIN store.Order[o].items :
                                  store.Order[o].items[k] = oi.id)

\* C19: in every quiescent state reached by successful addToCart and
\* checkout calls, for every user u and product p the number of successful
\* addToCart(p) calls of u, on top of the quantity the store started with,
\* is the quantity of u's CartItems for p plus the quantity of the
\* OrderItems made from p in u's Orders.
C19_NoUnitLost ==
  (Quiescent /\ OnlySuccessful) =>
    \A u \in Users, p \in ProductIds :
      Cardinality(AddsOf(u, p)) + Quantity(SeedOf(u, p))
        = Quantity(CartOf(store, u, p)) + Quantity(OrderedOf(u, p))

\* -------------------------------------------------------- item form claims
\* the step is the handling of the named event
PageEvent(event) == page' # page /\ page'.event = event

Changed(pg) == changedFields(itemGetter(pg), pg.state.value)

Success == [text |-> "Saved successfully", tone |-> "positive"]
Failure == [text |-> "Failed to update item", tone |-> "negative"]

\* C13: changedFields is empty right after the record was loaded, non-empty
\* right after a field's buffer value was changed to a value other than the
\* loaded one, and empty again right after the form's most recent save
\* completed successfully.
C13_ChangedFields ==
  /\ page.event = "load" => Changed(page) = {}
  /\ (/\ page.event = "change"
      /\ page.arg.value # deserializeValue(itemGetter(page))[page.arg.field])
       => page.arg.field \in Changed(page)
  /\ (/\ page.event = "updateDone"
      /\ page.arg.call = page.lastId
      /\ page.toasts = <<Success>>)
       => Changed(page) = {}

\* a save that changed the record has completed and left nothing changed
C13_Witness ==
  /\ page.event = "updateDone" /\ page.arg.call = page.lastId
  /\ page.toasts = <<Success>>
  /\ page.mut.hasData /\ page.mut.data.values # page.prop.values
  /\ Changed(page) = {}

\* C14: an update call is submitted only by a press of save with changed
\* fields and no invalid field, and it carries the record id and the
\* serialized values of exactly the changed fields; save has a click action
\* only with changed fields; a press of save with an invalid field sets
\* forceValidation and submits nothing.
C14_SaveSubmits ==
  [][/\ Len(page'.inflight) > Len(page.inflight) =>
          /\ PageEvent("save")
          /\ Changed(page) # {}
          /\ invalidFields(page.state.value) = {}
          /\ LET u == page'.inflight[Len(page'.inflight)]
             IN /\ u.id = ItemId
                /\ DOMAIN u.data = Changed(page)
                /\ \A f \in Changed(page) :
                     u.data[f] = serialize(page.state.value[f])
     /\ PageEvent("save") => Changed(page) # {}
     /\ (PageEvent("save") /\ invalidFields(page.state.value) # {}) =>
          /\ page'.forceValidation
          /\ page'.inflight = page.inflight
          /\ page'.lastId = page.lastId
     /\ (PageEvent("save") /\ invalidFields(page.state.value) = {}) =>
          /\ ~page'.forceValidation
          /\ Len(page'.inflight) = Len(page.inflight) + 1]_vars

\* an update that carries one of the two fields has been submitted
C14_Witness ==
  /\ page.event = "save" /\ page.inflight # <<>>
  /\ DOMAIN page.inflight[Len(page.inflight)].data = {"description"}
  /\ ~page.forceValidation

\* C15: a completed update that was rejected or has an error of path length 1
\* shows exactly one 'Failed to update item' toast and no success toast; one
\* with only field-level errors or none shows no failure toast.
C15_UpdateToasts ==
  page.event = "updateDone" =>
    IF page.arg.rejected \/ page.arg.top
    THEN page.toasts = <<Failure>>
    ELSE \A i \in DOMAIN page.toasts : page.toasts[i] # Failure

\* the snapshot the form holds after the step differs from the last applied
Differs == itemGetter(page').ver # page.state.item

FieldLevelErrors(getter) == {x \in getter.errors : Len(x) > 1}
TopLevelErrors(getter) == {x \in getter.errors : Len(x) = 1}

Replaced ==
  page'.state = [value |-> deserializeValue(itemGetter(page')),
                 item |-> itemGetter(page').ver]

\* the step delivers a result of the item query or of an update
Receives == PageEvent("refetch") \/ PageEvent("updateDone")

C17_DeleteOutcomeToast ==
  /\ page.deleting > 0 => page.isOpen
  /\ page.event = "deleteCancel" => ~page.isOpen
  /\ page.event = "deleteDone" =>
       /\ page.view = "list"
       /\ page.toasts =
            IF page.arg.rejected
            THEN <<[text |-> "Failed to delete item", tone |-> "negative"]>>
            ELSE <<[text |-> "Deleted successfully", tone |-> "positive"]>>
====
